---- MODULE Spec2Model ----
(***************************************************************************)
(* A model of tank.util.loader.load_plugin (python/tank/util/loader.py):   *)
(* the plugin file is executed as a module named after the md5 of its      *)
(* path, the classes the module defines are matched against an ordered     *)
(* list of base classes, intermediate classes are filtered out, and        *)
(* exactly one class must remain.                                          *)
(*                                                                         *)
(* Python objects are modelled as values: a class is a record holding its  *)
(* __name__, its __module__, its __bases__ (class records again), an       *)
(* identity (the call that executed the class statement, and the           *)
(* statement's position) and whether it is a new-style class.  A module    *)
(* namespace is a function from bound names to classes; a plugin file is   *)
(* a sequence of import, class and assignment statements.                  *)
(*                                                                         *)
(* The second part models LocalFileStorageManager.get_configuration_root   *)
(* (python/tank/util/local_file_storage.py), which builds the path of a    *)
(* configuration's folder from the platform's root folder and the site.    *)
(***************************************************************************)
EXTENDS Integers, Sequences, FiniteSets, TLC

\* ------------------------------------------------------------------ bounds

\* load_plugin calls started in one behaviour
MaxCalls == 2
\* edits of plugin files on disk in one behaviour
MaxEdits == 1
\* the largest project id and pipeline configuration id asked for
MaxId == 10
\* times the root of one configuration is asked for
MaxAsks == 2

Threads == {"t1", "t2"}
NoThread == "none"

\* --------------------------------------------------- the host's classes

\* builtin object
Object == [name |-> "object", mod |-> "builtins", bases |-> <<>>,
           id |-> <<0, 0>>, newstyle |-> TRUE]

\* tank.hook.Hook, as the caller of load_plugin holds it
Hook == [name |-> "Hook", mod |-> "tank.hook", bases |-> <<Object>>,
         id |-> <<0, 1>>, newstyle |-> TRUE]

\* tank.hook.Hook once more: the class object of a second import of the same
\* module (loader.py lines 133-135), equal in name and module, not identical
HookCopy == [name |-> "Hook", mod |-> "tank.hook", bases |-> <<Object>>,
             id |-> <<0, 2>>, newstyle |-> TRUE]

\* tank.platform.application.Application, a base type of another kind
Application == [name |-> "Application", mod |-> "tank.platform.application",
                bases |-> <<Object>>, id |-> <<0, 3>>, newstyle |-> TRUE]

\* shared.BaseHook: a class of the host that derives from Hook
BaseHook == [name |-> "BaseHook", mod |-> "shared", bases |-> <<Hook>>,
             id |-> <<0, 4>>, newstyle |-> TRUE]

\* ------------------------------------------------------- plugin files

ImportStmt(n, c) == [op |-> "import", name |-> n, parents |-> <<>>, target |-> "", ext |-> <<c>>]
ClassStmt(n, ps) == [op |-> "class", name |-> n, parents |-> ps, target |-> "", ext |-> <<>>]
AssignStmt(n, t) == [op |-> "assign", name |-> n, parents |-> <<>>, target |-> t, ext |-> <<>>]
RaiseStmt == [op |-> "raise", name |-> "", parents |-> <<>>, target |-> "", ext |-> <<>>]

Source(body) == [kind |-> "source", body |-> body]
\* no file at the path
Missing == [kind |-> "missing", body |-> <<>>]
\* a file python cannot compile
SyntaxError == [kind |-> "syntax_error", body |-> <<>>]

\* hooks/template_fields.py: from tank import Hook; class TemplateFields(Hook)
TemplateFields ==
    Source(<<ImportStmt("Hook", Hook), ClassStmt("TemplateFields", <<"Hook">>)>>)

\* class Mid(Hook); class Leaf(Mid)
ChainFile ==
    Source(<<ImportStmt("Hook", Hook), ClassStmt("Mid", <<"Hook">>),
             ClassStmt("Leaf", <<"Mid">>)>>)

\* class A(Hook); class B(Hook)
TwoFile ==
    Source(<<ImportStmt("Hook", Hook), ClassStmt("A", <<"Hook">>),
             ClassStmt("B", <<"Hook">>)>>)

\* class TemplateFields(Hook); Plugin = TemplateFields
AliasFile ==
    Source(<<ImportStmt("Hook", Hook), ClassStmt("TemplateFields", <<"Hook">>),
             AssignStmt("Plugin", "TemplateFields")>>)

\* imports Hook and BaseHook, defines only a class that derives from no base type
HelperFile ==
    Source(<<ImportStmt("Hook", Hook), ImportStmt("BaseHook", BaseHook),
             ClassStmt("Helper", <<"object">>)>>)

\* the file's Hook is another copy of tank.hook.Hook than the caller's
CopyFile ==
    Source(<<ImportStmt("Hook", HookCopy), ClassStmt("TemplateFields", <<"Hook">>)>>)

\* the same, with a chain
CopyChainFile ==
    Source(<<ImportStmt("Hook", HookCopy), ClassStmt("Mid", <<"Hook">>),
             ClassStmt("Leaf", <<"Mid">>)>>)

\* class TemplateFields(Hook); class MyApp(Application)
BothFile ==
    Source(<<ImportStmt("Hook", Hook), ImportStmt("Application", Application),
             ClassStmt("TemplateFields", <<"Hook">>), ClassStmt("MyApp", <<"Application">>)>>)

\* a class statement, then an error at module level
RaisingFile ==
    Source(<<ImportStmt("Hook", Hook), ClassStmt("TemplateFields", <<"Hook">>), RaiseStmt>>)

\* class Helper: pass; class Helper2(Helper): pass; class TemplateFields(Hook)
\* (Helper is an old-style class under python 2)
OldStyleFile ==
    Source(<<ImportStmt("Hook", Hook), ClassStmt("Helper", <<>>),
             ClassStmt("Helper2", <<"Helper">>), ClassStmt("TemplateFields", <<"Hook">>)>>)

\* what a plugin file may hold, by name
Contents == {"TemplateFields", "ChainFile", "TwoFile", "AliasFile", "HelperFile",
             "CopyFile", "CopyChainFile", "BothFile", "RaisingFile", "OldStyleFile",
             "SyntaxError", "Missing"}

Program(c) ==
    CASE c = "TemplateFields" -> TemplateFields
      [] c = "ChainFile" -> ChainFile
      [] c = "TwoFile" -> TwoFile
      [] c = "AliasFile" -> AliasFile
      [] c = "HelperFile" -> HelperFile
      [] c = "CopyFile" -> CopyFile
      [] c = "CopyChainFile" -> CopyChainFile
      [] c = "BothFile" -> BothFile
      [] c = "RaisingFile" -> RaisingFile
      [] c = "OldStyleFile" -> OldStyleFile
      [] c = "SyntaxError" -> SyntaxError
      [] c = "Missing" -> Missing

\* every name a plugin file binds, in the order of python's sort
\* (inspect.getmembers returns the members sorted by name)
SortedNames == <<"A", "Application", "B", "BaseHook", "Helper", "Helper2", "Hook", "Leaf",
                 "Mid", "MyApp", "Plugin", "TemplateFields">>

Paths == {"/cfg/hooks/a.py", "/cfg/hooks/b.py"}

\* the base classes a caller asks for: [valid_base_class] + alternate_base_classes
BaseLists == {<<Hook>>, <<Application, Hook>>}

\* ------------------------------------------------------ python's objects

Range(s) == {s[i] : i \in 1..Len(s)}

\* issubclass(cls, base_cls)
RECURSIVE issubclass(_, _)
issubclass(cls, base_cls) ==
    \/ cls = base_cls
    \/ \E i \in 1..Len(cls.bases) : issubclass(cls.bases[i], base_cls)

\* str(cls).split("'"): a new-style class prints as <class 'module.Name'>
\* (a builtin as <class 'Name'>), an old-style class as module.Name
SplitQuote(cls) ==
    LET dotted == IF cls.mod = "builtins" THEN cls.name
                  ELSE cls.mod \o "." \o cls.name
    IN  IF cls.newstyle THEN <<"<class ", dotted, ">">> ELSE <<dotted>>

\* str(cls).split("'")[1] raises IndexError when there is no second piece
HasText(cls) == Len(SplitQuote(cls)) >= 2
Text(cls) == SplitQuote(cls)[2]

\* the first occurrence of x removed from list s: list.remove(x)
RECURSIVE Remove(_, _)
Remove(s, x) ==
    IF s = <<>> THEN <<>>
    ELSE IF Head(s) = x THEN Tail(s)
    ELSE <<Head(s)>> \o Remove(Tail(s), x)

\* ------------------------------------------------- executing a plugin file

\* a module name that does not depend on the path
SameName(plugin_file) == "d41d8cd98f00b204e9800998ecf8427e"

\* md5(plugin_file).hexdigest()
md5(plugin_file) ==
    CASE plugin_file = "/cfg/hooks/a.py" -> "76d40ea06060e3feb806dfa979618dbc"
      [] plugin_file = "/cfg/hooks/b.py" -> "92c54fce67879a84ba25569a743b03f6"

Uids == {md5(p) : p \in Paths}

Bind(ns, n, c) == [m \in DOMAIN ns \cup {n} |-> IF m = n THEN c ELSE ns[m]]

\* a name looked up in the module's globals, then in the builtins
Bound(ns, n) == n \in DOMAIN ns \/ n = "object"
Lookup(ns, n) == IF n \in DOMAIN ns THEN ns[n] ELSE Object

\* the class a class statement creates: __module__ is the name of the module
\* being executed; without bases it derives from object under python 3 and
\* is an old-style class under python 2
NewClass(ns, stmt, name, ser, idx, py3) ==
    LET given == [i \in 1..Len(stmt.parents) |-> Lookup(ns, stmt.parents[i])]
    IN  [name |-> stmt.name, mod |-> name,
         bases |-> IF given = <<>> /\ py3 THEN <<Object>> ELSE given,
         id |-> <<ser, idx>>,
         newstyle |-> py3 \/ \E i \in 1..Len(given) : given[i].newstyle]

\* the statements body[idx..] executed in namespace ns: the namespace they
\* leave, and whether one of them raised
RECURSIVE Exec(_, _, _, _, _, _)
Exec(ns, body, idx, name, ser, py3) ==
    IF idx > Len(body) THEN [ok |-> TRUE, ns |-> ns, exc |-> ""]
    ELSE LET stmt == body[idx] IN
         CASE stmt.op = "import" ->
                Exec(Bind(ns, stmt.name, stmt.ext[1]), body, idx + 1, name, ser, py3)
           [] stmt.op = "class" ->
                IF \A i \in 1..Len(stmt.parents) : Bound(ns, stmt.parents[i])
                THEN Exec(Bind(ns, stmt.name, NewClass(ns, stmt, name, ser, idx, py3)),
                          body, idx + 1, name, ser, py3)
                ELSE [ok |-> FALSE, ns |-> ns, exc |-> "NameError"]
           [] stmt.op = "assign" ->
                IF Bound(ns, stmt.target)
                THEN Exec(Bind(ns, stmt.name, Lookup(ns, stmt.target)),
                          body, idx + 1, name, ser, py3)
                ELSE [ok |-> FALSE, ns |-> ns, exc |-> "NameError"]
           [] stmt.op = "raise" ->
                [ok |-> FALSE, ns |-> ns, exc |-> "RuntimeError"]

EmptyNs == [n \in {} |-> Object]

\* -------------------------------------------------------------- discovery

\* inspect.getmembers(module, search_predicate): the classes bound in the
\* module whose __module__ is the module's name, sorted by the name they are
\* bound to; a class bound to two names is listed twice
\* search_predicate without the test of line 117
AnyClass(member, module_name) == TRUE

search_predicate(member, module_name) == member.mod = module_name

getmembers(ns, module_name) ==
    LET bound == SelectSeq(SortedNames, LAMBDA n : n \in DOMAIN ns)
        kept  == SelectSeq(bound, LAMBDA n : search_predicate(ns[n], module_name))
    IN  [i \in 1..Len(kept) |-> ns[kept[i]]]

\* lines 138-143: the test that appends cls to found_classes
IsMatch(cls, base_cls) ==
    \/ issubclass(cls, base_cls)
    \/ /\ HasText(base_cls)
       /\ \E i \in 1..Len(cls.bases) :
             HasText(cls.bases[i]) /\ Text(cls.bases[i]) = Text(base_cls)

\* lines 136-141 raise IndexError when a printed class holds no quote
MatchRaises(cls, base_cls) ==
    \/ ~HasText(base_cls)
    \/ /\ ~issubclass(cls, base_cls)
       /\ \E i \in 1..Len(cls.bases) : ~HasText(cls.bases[i])

\* lines 131-145
Matches(all_classes, base_cls) ==
    SelectSeq(all_classes, LAMBDA cls : IsMatch(cls, base_cls))

\* lines 156-160: the bases of one found class removed from filtered_classes
RECURSIVE RemoveBases(_, _, _)
RemoveBases(filtered_classes, bases, j) ==
    IF j > Len(bases) THEN filtered_classes
    ELSE RemoveBases(IF bases[j] \in Range(filtered_classes)
                     THEN Remove(filtered_classes, bases[j])
                     ELSE filtered_classes,
                     bases, j + 1)

\* lines 154-160: the loop over found_classes
RECURSIVE FilterFrom(_, _, _)
FilterFrom(filtered_classes, found_classes, i) ==
    IF i > Len(found_classes) THEN filtered_classes
    ELSE FilterFrom(RemoveBases(filtered_classes, found_classes[i].bases, 1),
                    found_classes, i + 1)

\* lines 149-161
Filter(found_classes) ==
    IF Len(found_classes) > 1 THEN FilterFrom(found_classes, found_classes, 1)
    ELSE found_classes

\* Tiers without the break of line 164: every base class is looked at, and
\* found_classes is what the last one leaves
RECURSIVE TiersNoBreak(_, _, _)
TiersNoBreak(all_classes, valid_base_classes, k) ==
    IF k > Len(valid_base_classes)
    THEN [found |-> <<>>, tried |-> k - 1, raised |-> FALSE]
    ELSE IF \E i \in 1..Len(all_classes) : MatchRaises(all_classes[i], valid_base_classes[k])
    THEN [found |-> <<>>, tried |-> k, raised |-> TRUE]
    ELSE IF k = Len(valid_base_classes)
    THEN [found |-> Filter(SelectSeq(all_classes, LAMBDA cls : IsMatch(cls, valid_base_classes[k]))),
          tried |-> k, raised |-> FALSE]
    ELSE TiersNoBreak(all_classes, valid_base_classes, k + 1)

\* lines 129-164: the loop over valid_base_classes from tier k on, with the
\* number of tiers it looked at and whether the introspection raised
RECURSIVE Tiers(_, _, _)
Tiers(all_classes, valid_base_classes, k) ==
    IF k > Len(valid_base_classes)
    THEN [found |-> <<>>, tried |-> k - 1, raised |-> FALSE]
    ELSE IF \E i \in 1..Len(all_classes) : MatchRaises(all_classes[i], valid_base_classes[k])
    THEN [found |-> <<>>, tried |-> k, raised |-> TRUE]
    ELSE LET found_classes == Filter(Matches(all_classes, valid_base_classes[k]))
         IN  IF found_classes # <<>>
             THEN [found |-> found_classes, tried |-> k, raised |-> FALSE]
             ELSE Tiers(all_classes, valid_base_classes, k + 1)

\* --------------------------------------------------------------- messages

\* a message is the list of the pieces it is formatted from

\* lines 94-101
LoadMessage(plugin_file, exc) ==
    <<"Failed to load plugin ", plugin_file, ". The following error was reported:\n",
      "Exception: ", exc.type, " - ", exc.value, "\n",
      "Traceback (most recent call last):\n", exc.tb>>

\* lines 175-178
IntrospectionMessage(plugin_file, e) ==
    <<"Introspection error while trying to load and introspect file ", plugin_file,
      ". Error Reported: ", e>>

\* lines 182-188
NotOneMessage(plugin_file, valid_base_class) ==
    <<"Error loading the file '", plugin_file,
      "'. Couldn't find a single class deriving from '", valid_base_class.name, "'. ",
      "You need to have exactly one class defined in the file deriving from that base class. ",
      "If your file looks fine, it is possible that the cached .pyc file that python ",
      "generates is invalid and this is causing the error. In that case, please delete ",
      "the .pyc file and try again.">>

Error(type, message) == <<[type |-> type, message |-> message]>>

\* the exception python raises for a file it cannot read or compile
ReadError(content, plugin_file, py3) ==
    IF content.kind = "missing"
    THEN [type |-> IF py3 THEN "FileNotFoundError" ELSE "IOError",
          value |-> "[Errno 2] No such file or directory: '" \o plugin_file \o "'",
          tb |-> "load_plugin"]
    ELSE [type |-> "SyntaxError", value |-> "invalid syntax", tb |-> "load_plugin"]

ExecError(type) == [type |-> type, value |-> "raised by the plugin file", tb |-> "<module>"]

\* ------------------------------------------------------------ the loaders

\* imp.load_source(module_uid, plugin_file), line 76: a module registered
\* under the name is executed again in its own namespace; a module whose
\* execution raises is removed from sys.modules
load_source(name, plugin_file, content, ser, mods, dicts) ==
    IF content.kind # "source"
    THEN [module |-> 0, sys_modules |-> mods, module_dict |-> dicts,
          exc |-> <<ReadError(content, plugin_file, FALSE)>>]
    ELSE LET m == IF mods[name] # 0 THEN mods[name] ELSE ser
             r == Exec(dicts[m], content.body, 1, name, ser, FALSE)
         IN  IF r.ok
             THEN [module |-> m, sys_modules |-> [mods EXCEPT ![name] = m],
                   module_dict |-> [dicts EXCEPT ![m] = r.ns], exc |-> <<>>]
             ELSE [module |-> 0, sys_modules |-> [mods EXCEPT ![name] = 0],
                   module_dict |-> [dicts EXCEPT ![m] = r.ns],
                   exc |-> <<ExecError(r.exc)>>]

\* lines 78-82: a new module is made, the file executed in it, and the
\* module then put into sys.modules
exec_module(name, plugin_file, content, ser, mods, dicts) ==
    IF content.kind # "source"
    THEN [module |-> 0, sys_modules |-> mods, module_dict |-> dicts,
          exc |-> <<ReadError(content, plugin_file, TRUE)>>]
    ELSE LET r == Exec(EmptyNs, content.body, 1, name, ser, TRUE)
         IN  IF r.ok
             THEN [module |-> ser, sys_modules |-> [mods EXCEPT ![name] = ser],
                   module_dict |-> [dicts EXCEPT ![ser] = r.ns], exc |-> <<>>]
             ELSE [module |-> 0, sys_modules |-> mods, module_dict |-> dicts,
                   exc |-> <<ExecError(r.exc)>>]

\* Validate with line 180 testing for no class at all: of several, the first
ValidatePicksFirst(plugin_file, valid_base_class, found_classes) ==
    IF Len(found_classes) = 0
    THEN [returned |-> <<>>,
          raised |-> Error("TankLoadPluginError", NotOneMessage(plugin_file, valid_base_class))]
    ELSE [returned |-> <<found_classes[1]>>, raised |-> <<>>]

\* lines 180-197
Validate(plugin_file, valid_base_class, found_classes) ==
    IF Len(found_classes) # 1
    THEN [returned |-> <<>>,
          raised |-> Error("TankLoadPluginError", NotOneMessage(plugin_file, valid_base_class))]
    ELSE [returned |-> <<found_classes[1]>>, raised |-> <<>>]

\* ------------------------------------ python/tank/util/local_file_storage.py

\* A python str is a string.  A value that may be None is <<>> for None and
\* <<v>> for the value v; a call ends with the value it returns or with the
\* exception it raises.
None == <<>>
Returns(v) == [value |-> <<v>>, raised |-> <<>>]
ReturnsNone == [value |-> None, raised |-> <<>>]
Raises(type, message) == [value |-> None, raised |-> Error(type, message)]

Min(S) == CHOOSE i \in S : \A j \in S : i <= j
\* s[:n] and s[n:]
Take(s, n) == SubSeq(s, 1, IF n < Len(s) THEN n ELSE Len(s))
Drop(s, n) == IF n < Len(s) THEN SubSeq(s, n + 1, Len(s)) ELSE ""
\* s[i - 1], and the characters of s
At(s, i) == SubSeq(s, i, i)
Chars(s) == {At(s, i) : i \in 1..Len(s)}
startswith(s, prefix) == Take(s, Len(prefix)) = prefix
endswith(s, suffix) == Len(s) >= Len(suffix) /\ Drop(s, Len(s) - Len(suffix)) = suffix
\* s.find(sub, start): the index (from 0) of the first sub at or after start
find(s, sub, start) ==
    LET at == {i \in start..(Len(s) - Len(sub)) : SubSeq(s, i + 1, i + Len(sub)) = sub}
    IN  IF at = {} THEN -1 ELSE Min(at)

ascii_uppercase == "ABCDEFGHIJKLMNOPQRSTUVWXYZ"
ascii_lowercase == "abcdefghijklmnopqrstuvwxyz"
digits == "0123456789"
RECURSIVE lower(_)
lower(s) ==
    IF s = "" THEN ""
    ELSE (IF Head(s) \in Chars(ascii_uppercase)
          THEN At(ascii_lowercase, 1 + find(ascii_uppercase, Head(s), 0))
          ELSE Head(s)) \o lower(Tail(s))

RECURSIVE replace(_, _, _)
replace(s, old, new) ==
    IF Len(s) < Len(old) THEN s
    ELSE IF startswith(s, old) THEN new \o replace(Drop(s, Len(old)), old, new)
    ELSE Head(s) \o replace(Tail(s), old, new)

RECURSIVE split(_, _)
split(s, sep) ==
    LET i == find(s, sep, 0)
    IN  IF i = -1 THEN <<s>>
        ELSE <<Take(s, i)>> \o split(Drop(s, i + Len(sep)), sep)

RECURSIVE rstrip(_, _)
rstrip(s, c) == IF s # "" /\ At(s, Len(s)) = c THEN rstrip(Take(s, Len(s) - 1), c) ELSE s

\* "%d" % n for an integer n >= 0, and "%s" % x for an integer or None
RECURSIVE FormatD(_)
FormatD(n) ==
    IF n < 10 THEN At(digits, n + 1)
    ELSE FormatD(n \div 10) \o At(digits, (n % 10) + 1)
FormatS(x) == IF x = None THEN "None" ELSE FormatD(x[1])

\* urlparse.urlparse(url).netloc (python 2.7 urlsplit): a scheme is what
\* stands before the first ":" when it is made of scheme characters and is
\* not followed by a port number; the netloc follows "//" up to "/", "?", "#"
scheme_chars == Chars(ascii_lowercase) \cup Chars(ascii_uppercase) \cup Chars(digits)
                    \cup {"+", "-", "."}
splitnetloc(url, start) ==
    LET at == {k \in start..(Len(url) - 1) : At(url, k + 1) \in {"/", "?", "#"}}
        delim == IF at = {} THEN Len(url) ELSE Min(at)
    IN  SubSeq(url, start + 1, delim)
urlparse(url) ==
    LET i == find(url, ":", 0)
        rest == Drop(url, i + 1)
        scheme == /\ i > 0
                  /\ \/ Take(url, i) = "http"
                     \/ /\ \A k \in 1..i : At(url, k) \in scheme_chars
                        /\ rest = "" \/ \E k \in 1..Len(rest) : At(rest, k) \notin Chars(digits)
        u == IF scheme THEN rest ELSE url
    IN  [scheme |-> IF scheme THEN lower(Take(url, i)) ELSE "",
         netloc |-> IF Take(u, 2) = "//" THEN splitnetloc(u, 2) ELSE ""]

\* os.path is ntpath under win32 and posixpath elsewhere
win32 == "win32"
posixpath_join(a, b) ==
    IF startswith(b, "/") THEN b
    ELSE IF a = "" \/ endswith(a, "/") THEN a \o b
    ELSE a \o "/" \o b
\* ntpath.splitdrive, for the drive letters ("C:"); UNC paths are left out
splitdrive(p) ==
    IF Len(p) > 1 /\ At(p, 2) = ":" THEN <<Take(p, 2), Drop(p, 2)>> ELSE <<"", p>>
ntpath_join(a, b) ==
    LET result_drive == splitdrive(a)[1]
        result_path == splitdrive(a)[2]
        p_drive == splitdrive(b)[1]
        p_path == splitdrive(b)[2]
    IN  IF p_path # "" /\ Head(p_path) \in {"\\", "/"}
        THEN (IF p_drive # "" \/ result_drive = "" THEN p_drive ELSE result_drive)
                 \o p_path
        ELSE IF p_drive # "" /\ lower(p_drive) # lower(result_drive)
        THEN p_drive \o p_path
        ELSE (IF p_drive # "" THEN p_drive ELSE result_drive)
                 \o (IF result_path # "" /\ At(result_path, Len(result_path)) \notin {"\\", "/"}
                     THEN result_path \o "\\"
                     ELSE result_path)
                 \o p_path
RECURSIVE JoinAll(_, _, _)
JoinAll(platform, a, p) ==
    IF p = <<>> THEN a
    ELSE JoinAll(platform,
                 IF platform = win32 THEN ntpath_join(a, p[1]) ELSE posixpath_join(a, p[1]),
                 Tail(p))
\* os.path.join(a, *p); a is None when get_global_root returned nothing
os_path_join(platform, a, p) ==
    IF a = None
    THEN IF platform = win32
         THEN Raises("TypeError", "object of type 'NoneType' has no len()")
         ELSE Raises("AttributeError", "'NoneType' object has no attribute 'endswith'")
    ELSE Returns(JoinAll(platform, a[1], p))
\* posixpath.expanduser of a path that starts with "~/": the home directory
\* of the user, which is HOME, without its trailing slashes
expanduser(path, environ) ==
    IF ~startswith(path, "~") THEN path
    ELSE LET userhome == rstrip(environ.HOME, "/")
         IN  IF userhome \o Drop(path, 1) = "" THEN "/" ELSE userhome \o Drop(path, 1)

\* line 40: (CORE_V17, CORE_V18) = range(2)
CORE_V17 == 0
CORE_V18 == 1
\* line 43: (LOGGING, CACHE, PERSISTENT) = range(3)
LOGGING == 0
CACHE == 1
PERSISTENT == 2

\* lines 46-140
get_global_root(path_type, generation, platform, environ) ==
    LET APPDATA == IF environ.APPDATA = None THEN <<"APPDATA_NOT_SET">>
                   ELSE environ.APPDATA
        unsupported == Raises("ValueError", "Unsupported path type!")
        unknown == Raises("ValueError", "Unknown platform: %s")
    IN
    IF generation = CORE_V18
    THEN CASE platform = "darwin" ->
                (CASE path_type = CACHE ->
                        Returns(expanduser("~/Library/Caches/Shotgun", environ))
                   [] path_type = PERSISTENT ->
                        Returns(expanduser("~/Library/Application Support/Shotgun", environ))
                   [] path_type = LOGGING ->
                        Returns(expanduser("~/Library/Logs/Shotgun", environ))
                   [] OTHER -> unsupported)
           [] platform = win32 ->
                (CASE path_type = CACHE ->
                        os_path_join(platform, APPDATA, <<"Shotgun">>)
                   [] path_type = PERSISTENT ->
                        os_path_join(platform, APPDATA, <<"Shotgun", "Data">>)
                   [] path_type = LOGGING ->
                        os_path_join(platform, APPDATA, <<"Shotgun", "Logs">>)
                   [] OTHER -> unsupported)
           [] startswith(platform, "linux") ->
                (CASE path_type = CACHE ->
                        Returns(expanduser("~/.shotgun", environ))
                   [] path_type = PERSISTENT ->
                        Returns(expanduser("~/.shotgun/data", environ))
                   [] path_type = LOGGING ->
                        Returns(expanduser("~/.shotgun/logs", environ))
                   [] OTHER -> unsupported)
           [] OTHER -> unknown
    ELSE IF generation = CORE_V17
    THEN CASE platform = "darwin" ->
                (CASE path_type = CACHE ->
                        Returns(expanduser("~/Library/Caches/Shotgun", environ))
                   [] path_type = PERSISTENT ->
                        Returns(expanduser("~/Library/Application Support/Shotgun", environ))
                   [] path_type = LOGGING ->
                        Returns(expanduser("~/Library/Logs/Shotgun", environ))
                   [] OTHER -> unsupported)
           [] platform = win32 ->
                (CASE path_type \in {CACHE, PERSISTENT, LOGGING} ->
                        os_path_join(platform, APPDATA, <<"Shotgun">>)
                   [] OTHER -> unsupported)
           [] startswith(platform, "linux") ->
                (CASE path_type \in {CACHE, PERSISTENT, LOGGING} ->
                        Returns(expanduser("~/.shotgun", environ))
                   [] OTHER -> unsupported)
           [] OTHER -> unknown
    ELSE ReturnsNone

\* lines 143-179
get_site_root(hostname, path_type, generation, platform, environ) ==
    LET netloc == urlparse(hostname).netloc
        base_url == lower(split(netloc, ":")[1])
        site == IF generation > CORE_V17
                THEN replace(base_url, ".shotgunstudio.com", "")
                ELSE base_url
        root == get_global_root(path_type, generation, platform, environ)
    IN  IF root.raised # <<>> THEN root
        ELSE os_path_join(platform, root.value, <<site>>)

\* get_configuration_root with a site configuration folder that leaves the
\* configuration out
ConfigurationRootSiteOnly(hostname, project_id, pipeline_config_id, path_type, generation, platform, environ) ==
    LET site_root == get_site_root(hostname, path_type, generation, platform, environ)
    IN  IF site_root.raised # <<>> THEN site_root
        ELSE IF generation = CORE_V17
        THEN os_path_join(platform, site_root.value,
                          <<"project_" \o FormatS(project_id),
                            "config_" \o FormatS(pipeline_config_id)>>)
        ELSE LET pc_suffix == IF pipeline_config_id = None THEN ""
                              ELSE "c" \o FormatD(pipeline_config_id[1])
                 project_config_folder ==
                     IF project_id = None THEN "site"
                     ELSE "p" \o FormatD(project_id[1]) \o pc_suffix
             IN  os_path_join(platform, site_root.value, <<project_config_folder>>)

\* lines 182-234
get_configuration_root(hostname, project_id, pipeline_config_id, path_type, generation, platform, environ) ==
    LET site_root == get_site_root(hostname, path_type, generation, platform, environ)
    IN  IF site_root.raised # <<>> THEN site_root
        ELSE IF generation = CORE_V17
        THEN os_path_join(platform, site_root.value,
                          <<"project_" \o FormatS(project_id),
                            "config_" \o FormatS(pipeline_config_id)>>)
        ELSE LET pc_suffix == IF pipeline_config_id = None THEN ""
                              ELSE "c" \o FormatD(pipeline_config_id[1])
                 project_config_folder ==
                     IF project_id = None THEN "site" \o pc_suffix
                     ELSE "p" \o FormatD(project_id[1]) \o pc_suffix
             IN  os_path_join(platform, site_root.value, <<project_config_folder>>)

\* the hosts the paths are asked on: sys.platform, and os.environ
Platforms == {"darwin", win32, "linux2", "sunos5"}
Environs ==
    {[HOME |-> "/home/u", APPDATA |-> None],
     [HOME |-> "/", APPDATA |-> <<"C:\\AD">>]}
\* the arguments of the calls
Hostnames ==
    {"https://Ab.shotgunstudio.com",
     "http://sg.Cd.com:80/x",
     "ab.shotgunstudio.com"}
Ids == {None} \cup {<<n>> : n \in 0..MaxId}
PathTypes == {LOGGING, CACHE, PERSISTENT, PERSISTENT + 1}
Generations == {CORE_V17, CORE_V18, CORE_V18 + 1}

\* ------------------------------------------------------------------ state

VARIABLES
    python3,             \* lines 29-33: which interpreter runs the module
    files,               \* what the plugin file at each path holds
    edits,               \* edits of plugin files so far
    sys_modules,         \* sys.modules: module name -> module object (0: none)
    module_dict,         \* module object -> its namespace
    import_lock,         \* the thread holding the interpreter's import lock
    calls,               \* load_plugin calls started so far
    pc,                  \* where each thread is in load_plugin
    ser,                 \* the number of the thread's call
    plugin_file,
    valid_base_classes,
    module_uid,
    content,             \* what the thread's load read from the file
    module,
    exc_info,
    all_classes,
    found_classes,
    tried,               \* base classes the loop of line 129 looked at
    returned,            \* <<the class returned>>, or <<>>
    raised,              \* <<the error raised>>, or <<>>
    sys_platform,        \* sys.platform
    environ,             \* os.environ
    request,             \* <<the arguments of get_configuration_root>>, or <<>>
    asked,               \* times it was called with them
    path                 \* <<what the last call returned or raised>>, or <<>>

shared == <<python3, files, edits, sys_modules, module_dict, import_lock, calls>>
locals == <<pc, ser, plugin_file, valid_base_classes, module_uid, content, module,
            exc_info, all_classes, found_classes, tried, returned, raised>>
storage == <<sys_platform, environ, request, asked, path>>
vars == <<shared, locals, storage>>

Modules == 1..MaxCalls

\* no call of load_plugin was made
NoCalls ==
    /\ files = [p \in Paths |-> "TemplateFields"]
    /\ edits = 0
    /\ sys_modules = [u \in Uids |-> 0]
    /\ module_dict = [m \in Modules |-> EmptyNs]
    /\ import_lock = NoThread
    /\ calls = 0
    /\ pc = [t \in Threads |-> "idle"]
    /\ ser = [t \in Threads |-> 0]
    /\ plugin_file = [t \in Threads |-> ""]
    /\ valid_base_classes = [t \in Threads |-> <<>>]
    /\ module_uid = [t \in Threads |-> ""]
    /\ content = [t \in Threads |-> "Missing"]
    /\ module = [t \in Threads |-> 0]
    /\ exc_info = [t \in Threads |-> <<>>]
    /\ all_classes = [t \in Threads |-> <<>>]
    /\ found_classes = [t \in Threads |-> <<>>]
    /\ tried = [t \in Threads |-> 0]
    /\ returned = [t \in Threads |-> <<>>]
    /\ raised = [t \in Threads |-> <<>>]

\* no root was asked for
NoRequest ==
    /\ request = <<>>
    /\ asked = 0
    /\ path = <<>>

Init ==
    /\ python3 \in BOOLEAN
    /\ NoCalls
    /\ sys_platform = "linux2"
    /\ environ = [HOME |-> "/home/u", APPDATA |-> None]
    /\ NoRequest

\* the plugin file at /cfg/hooks/a.py is rewritten; a file is read only by
\* line 76 or 81, so an edit is taken when a thread is about to read
Edit(c) ==
    /\ edits < MaxEdits
    /\ \E t \in Threads : pc[t] = "load" /\ plugin_file[t] = "/cfg/hooks/a.py"
    /\ c # files["/cfg/hooks/a.py"]
    /\ files' = [files EXCEPT !["/cfg/hooks/a.py"] = c]
    /\ edits' = edits + 1
    /\ UNCHANGED <<storage, python3, sys_modules, module_dict, import_lock, calls, locals>>

\* lines 44-72: load_plugin(p, bases[0], bases[1:]) is called on thread t
\* (the threads are alike: t2 is taken when t1 is busy)
Call(t, p, bases) ==
    /\ pc[t] = "idle"
    /\ t = "t2" => pc["t1"] # "idle"
    /\ calls < MaxCalls
    /\ calls' = calls + 1
    /\ ser' = [ser EXCEPT ![t] = calls + 1]
    /\ plugin_file' = [plugin_file EXCEPT ![t] = p]
    /\ valid_base_classes' = [valid_base_classes EXCEPT ![t] = bases]
    /\ module_uid' = [module_uid EXCEPT ![t] = md5(p)]
    /\ module' = [module EXCEPT ![t] = 0]
    /\ pc' = [pc EXCEPT ![t] = "try"]
    /\ UNCHANGED <<storage, python3, files, edits, sys_modules, module_dict, import_lock,
                   content, exc_info, all_classes, found_classes, tried, returned, raised>>

\* lines 73-75: imp.acquire_lock() under python 2, nothing under python 3
Acquire(t) ==
    /\ pc[t] = "try"
    /\ python3 \/ import_lock \in {NoThread, t}
    /\ import_lock' = IF python3 THEN import_lock ELSE t
    /\ pc' = [pc EXCEPT ![t] = "load"]
    /\ UNCHANGED <<storage, python3, files, edits, sys_modules, module_dict, calls,
                   ser, plugin_file, valid_base_classes, module_uid, content, module,
                   exc_info, all_classes, found_classes, tried, returned, raised>>

\* lines 76-82: the file is read, compiled, executed and registered
Load(t) ==
    /\ pc[t] = "load"
    /\ LET args == <<module_uid[t], plugin_file[t], Program(files[plugin_file[t]]), ser[t],
                     sys_modules, module_dict>>
           r == IF python3
                THEN exec_module(args[1], args[2], args[3], args[4], args[5], args[6])
                ELSE load_source(args[1], args[2], args[3], args[4], args[5], args[6])
       IN  /\ content' = [content EXCEPT ![t] = files[plugin_file[t]]]
           /\ module' = [module EXCEPT ![t] = r.module]
           /\ sys_modules' = r.sys_modules
           /\ module_dict' = r.module_dict
           /\ exc_info' = [exc_info EXCEPT ![t] = r.exc]
    /\ pc' = [pc EXCEPT ![t] = "finally"]
    /\ UNCHANGED <<storage, python3, files, edits, import_lock, calls, ser, plugin_file,
                   valid_base_classes, module_uid, all_classes, found_classes, tried,
                   returned, raised>>

\* lines 83-105: the except clause builds the error, the finally clause
\* releases the lock under python 2, and the error is raised
Finally(t) ==
    /\ pc[t] = "finally"
    /\ import_lock' = IF python3 THEN import_lock ELSE NoThread
    /\ IF exc_info[t] # <<>>
       THEN /\ raised' = [raised EXCEPT ![t] =
                   Error("TankLoadPluginError", LoadMessage(plugin_file[t], exc_info[t][1]))]
            /\ pc' = [pc EXCEPT ![t] = "done"]
       ELSE /\ raised' = raised
            /\ pc' = [pc EXCEPT ![t] = "introspect"]
    /\ UNCHANGED <<storage, python3, files, edits, sys_modules, module_dict, calls, ser,
                   plugin_file, valid_base_classes, module_uid, content, module, exc_info,
                   all_classes, found_classes, tried, returned>>

\* lines 111-197: the classes of the module are matched against the bases,
\* and exactly one class is returned, or an error raised
Introspect(t) ==
    /\ pc[t] = "introspect"
    /\ LET all == getmembers(module_dict[module[t]], module_uid[t])
           r == Tiers(all, valid_base_classes[t], 1)
           v == Validate(plugin_file[t], valid_base_classes[t][1], r.found)
       IN  /\ all_classes' = [all_classes EXCEPT ![t] = all]
           /\ tried' = [tried EXCEPT ![t] = r.tried]
           /\ found_classes' = [found_classes EXCEPT ![t] = r.found]
           /\ IF r.raised
              THEN /\ raised' = [raised EXCEPT ![t] =
                          Error("TankError",
                                IntrospectionMessage(plugin_file[t], "list index out of range"))]
                   /\ returned' = returned
              ELSE /\ raised' = [raised EXCEPT ![t] = v.raised]
                   /\ returned' = [returned EXCEPT ![t] = v.returned]
    /\ pc' = [pc EXCEPT ![t] = "done"]
    /\ UNCHANGED <<storage, shared, ser, plugin_file, valid_base_classes, module_uid, content,
                   module, exc_info>>

\* the caller takes the class or the error; the frame of the call is gone
Return(t) ==
    /\ pc[t] = "done"
    /\ pc' = [pc EXCEPT ![t] = "idle"]
    /\ ser' = [ser EXCEPT ![t] = 0]
    /\ plugin_file' = [plugin_file EXCEPT ![t] = ""]
    /\ valid_base_classes' = [valid_base_classes EXCEPT ![t] = <<>>]
    /\ module_uid' = [module_uid EXCEPT ![t] = ""]
    /\ content' = [content EXCEPT ![t] = "Missing"]
    /\ module' = [module EXCEPT ![t] = 0]
    /\ exc_info' = [exc_info EXCEPT ![t] = <<>>]
    /\ all_classes' = [all_classes EXCEPT ![t] = <<>>]
    /\ found_classes' = [found_classes EXCEPT ![t] = <<>>]
    /\ tried' = [tried EXCEPT ![t] = 0]
    /\ returned' = [returned EXCEPT ![t] = <<>>]
    /\ raised' = [raised EXCEPT ![t] = <<>>]
    /\ UNCHANGED <<storage, shared>>

Next ==
    \/ \E c \in Contents : Edit(c)
    \/ \E t \in Threads, p \in Paths, bases \in BaseLists : Call(t, p, bases)
    \/ \E t \in Threads : Acquire(t)
    \/ \E t \in Threads : Load(t)
    \/ \E t \in Threads : Finally(t)
    \/ \E t \in Threads : Introspect(t)
    \/ \E t \in Threads : Return(t)

Spec == Init /\ [][Next]_vars

\* local_file_storage.py imports urlparse (line 13) and so runs under python 2
\* only; the platform and the environment are those of the host
InitPaths ==
    /\ python3 = FALSE
    /\ NoCalls
    /\ sys_platform \in Platforms
    /\ environ \in Environs
    /\ NoRequest

\* lines 182-234: get_configuration_root is called
GetConfigurationRoot ==
    /\ asked = 0
    /\ \E hostname \in Hostnames, project_id \in Ids, pipeline_config_id \in Ids,
          path_type \in PathTypes, generation \in Generations :
          /\ request' = <<[hostname |-> hostname, project_id |-> project_id,
                           pipeline_config_id |-> pipeline_config_id,
                           path_type |-> path_type, generation |-> generation]>>
          /\ path' = <<get_configuration_root(hostname, project_id, pipeline_config_id,
                                              path_type, generation, sys_platform,
                                              environ)>>
    /\ asked' = 1
    /\ UNCHANGED <<sys_platform, environ, shared, locals>>

\* lines 182-234: it is called again with the same arguments
GetConfigurationRootAgain ==
    /\ asked \in 1..(MaxAsks - 1)
    /\ path' = <<get_configuration_root(request[1].hostname, request[1].project_id,
                                        request[1].pipeline_config_id,
                                        request[1].path_type, request[1].generation,
                                        sys_platform, environ)>>
    /\ asked' = asked + 1
    /\ UNCHANGED <<sys_platform, environ, request, shared, locals>>

NextPaths ==
    \/ GetConfigurationRoot
    \/ GetConfigurationRootAgain

SpecPaths == InitPaths /\ [][NextPaths]_vars

\* ----------------------------------------------------------------- claims

Done(t) == pc[t] = "done"
\* the load of the call of t succeeded, so that lines 111-164 ran
Loaded(t) == Done(t) /\ exc_info[t] = <<>>
\* lines 136-141 raised while the base classes up to tried[t] were looked at
Crashed(t) ==
    \E k \in 1..tried[t], i \in 1..Len(all_classes[t]) :
        MatchRaises(all_classes[t][i], valid_base_classes[t][k])
\* the classes of the module of t that derive from the k-th base class
MatchSet(t, k) == {c \in Range(all_classes[t]) : IsMatch(c, valid_base_classes[t][k])}
\* those of them that are no direct parent of another
LeafSet(t, k) ==
    {c \in MatchSet(t, k) : \A d \in MatchSet(t, k) : c \notin Range(d.bases)}
HostClasses == {Object, Hook, HookCopy, Application, BaseHook}

\* C1: load_plugin returns a class only when exactly one candidate is left
\* after the reduction, and that class is the candidate; when none or
\* several are left it raises TankLoadPluginError and returns nothing.
C1_ExactlyOneOrError ==
    \A t \in Threads : Loaded(t) /\ ~Crashed(t) =>
        /\ returned[t] # <<>> =>
              /\ Len(found_classes[t]) = 1
              /\ returned[t] = found_classes[t]
              /\ raised[t] = <<>>
        /\ Len(found_classes[t]) # 1 =>
              /\ returned[t] = <<>>
              /\ raised[t] # <<>>
              /\ raised[t][1].type = "TankLoadPluginError"

\* a call that found two candidates and raised
C1_Witness ==
    \E t \in Threads :
        /\ Loaded(t)
        /\ Len(found_classes[t]) = 2
        /\ found_classes[t][1] # found_classes[t][2]
        /\ raised[t] # <<>>

C5_OnlyOwnClasses ==
    \A t \in Threads : Loaded(t) =>
        \A c \in Range(all_classes[t]) \cup Range(found_classes[t]) \cup Range(returned[t]) :
            /\ c.mod = md5(plugin_file[t])
            /\ c \notin HostClasses

\* a file that imported BaseHook, which derives from the base class asked
\* for, and defines no class deriving from it: nothing is found
C5_Witness ==
    \E t \in Threads :
        /\ Loaded(t)
        /\ module[t] # 0
        /\ "BaseHook" \in DOMAIN module_dict[module[t]]
        /\ issubclass(module_dict[module[t]]["BaseHook"], valid_base_classes[t][1])
        /\ found_classes[t] = <<>>
        /\ raised[t] # <<>>

\* C9: different paths have different module names; the load of one path
\* leaves the registered module of every other path, and its namespace, as
\* they were; a class returned carries the module name of its own path, so
\* that classes returned for different paths differ.
C9_PathsIsolated ==
    [][ /\ \A p, q \in Paths : p # q => md5(p) # md5(q)
        /\ \A t \in Threads : pc[t] = "load" /\ pc'[t] = "finally" =>
              \A q \in Paths \ {plugin_file[t]} :
                  /\ sys_modules'[md5(q)] = sys_modules[md5(q)]
                  /\ sys_modules[md5(q)] # 0 =>
                        module_dict'[sys_modules[md5(q)]] = module_dict[sys_modules[md5(q)]]
        /\ \A t \in Threads : returned'[t] # <<>> =>
              returned'[t][1].mod = md5(plugin_file'[t])
        /\ \A t, u \in Threads :
              (/\ returned'[t] # <<>> /\ returned'[u] # <<>>
               /\ plugin_file'[t] # plugin_file'[u])
              => returned'[t] # returned'[u]
      ]_vars

\* two paths loaded, both modules registered, and the classes returned have
\* the same name
C9_Witness ==
    \E t, u \in Threads :
        /\ Done(t) /\ Done(u)
        /\ plugin_file[t] # plugin_file[u]
        /\ returned[t] # <<>> /\ returned[u] # <<>>
        /\ returned[t][1].name = returned[u][1].name
        /\ \A p \in Paths : sys_modules[md5(p)] # 0

\* the names the class statements of a file bind
Defines(c) == {Program(c).body[i].name :
                 i \in {j \in 1..Len(Program(c).body) : Program(c).body[j].op = "class"}}

Cites(message, x) == \E i \in 1..Len(message) : message[i] = x

\* lines 180-192 raised: the file was loaded and introspected, and not
\* exactly one class was left
NotOne(t) == Loaded(t) /\ ~Crashed(t) /\ Len(found_classes[t]) # 1

\* C3: a file whose classes are Mid, deriving from the one base class asked
\* for (formally, or by the name of its parent), and Leaf, deriving from
\* Mid, returns Leaf.
C3_ChainReturnsLeaf ==
    \A t \in Threads : Loaded(t) /\ Len(valid_base_classes[t]) = 1 =>
        \A mid, leaf \in Range(all_classes[t]) :
            (/\ Range(all_classes[t]) = {mid, leaf}
             /\ mid # leaf
             /\ leaf.bases = <<mid>>
             /\ IsMatch(mid, valid_base_classes[t][1]))
            => returned[t] = <<leaf>>

\* C4: the classes found for a base class are those of the module that pass
\* issubclass or have a parent of the base class's name; and a file that
\* defines exactly one class deriving from the first base class in one of
\* these ways returns that class.
C4_SingleDerivedReturned ==
    \A t \in Threads : Loaded(t) =>
        /\ found_classes[t] # <<>> =>
              Range(found_classes[t]) \subseteq MatchSet(t, tried[t])
        /\ \A c \in Range(all_classes[t]) :
              MatchSet(t, 1) = {c} => returned[t] = <<c>>

\* C6: a load that raises ends in a TankLoadPluginError whose message holds
\* the path, the text of the error and the traceback; discovery is not run,
\* nothing is returned, and sys.modules is as it was before the load.
C6_FailedLoadLeavesNothing ==
    [][ \A t \in Threads : pc[t] = "load" /\ pc'[t] = "finally" /\ exc_info'[t] # <<>> =>
          /\ sys_modules' = sys_modules
          /\ module'[t] = 0
      ]_vars
    /\ [](\A t \in Threads : Done(t) /\ exc_info[t] # <<>> =>
            /\ raised[t] # <<>>
            /\ raised[t][1].type = "TankLoadPluginError"
            /\ Cites(raised[t][1].message, plugin_file[t])
            /\ Cites(raised[t][1].message, exc_info[t][1].value)
            /\ Cites(raised[t][1].message, exc_info[t][1].tb)
            /\ all_classes[t] = <<>> /\ tried[t] = 0
            /\ returned[t] = <<>>)

\* C7: the error of a failed discovery names the file and every base class
\* tried, names the classes left when there are several, and differs between
\* no class and several classes.
C7_DiscoveryErrorIsSpecific ==
    \A t \in Threads : NotOne(t) =>
        LET message == raised[t][1].message IN
        /\ Cites(message, plugin_file[t])
        /\ \A k \in 1..tried[t] : Cites(message, valid_base_classes[t][k].name)
        /\ \A c \in Range(found_classes[t]) : Cites(message, c.name)
        /\ \A u \in Threads :
              (/\ NotOne(u)
               /\ (found_classes[t] = <<>>) # (found_classes[u] = <<>>))
              => raised[u][1].message # message

\* C8: the candidates of a load come from what the file held when it was
\* loaded: a class that this content does not define, such as one an earlier
\* version of the file defined, is no candidate and is not returned.
C8_ReloadIsFresh ==
    \A t \in Threads : Loaded(t) =>
        \A c \in Range(all_classes[t]) \cup Range(returned[t]) :
            c.name \in Defines(content[t])

\* C10: a thread between acquiring and releasing holds the import lock, no
\* two threads are there at once, and a thread elsewhere does not hold it.
C10_LoadIsCriticalSection ==
    /\ \A t \in Threads : pc[t] \in {"load", "finally"} => import_lock = t
    /\ \A t, u \in Threads :
          t # u => ~(pc[t] \in {"load", "finally"} /\ pc[u] \in {"load", "finally"})
    /\ \A t \in Threads : pc[t] \notin {"load", "finally"} => import_lock # t

\* C12: the candidates correspond one-to-one to the distinct classes of the
\* module: no class is a candidate twice, however many names the file binds
\* it to, and a call whose candidates are one distinct class returns that
\* class and raises nothing.
C12_AliasCountedOnce ==
    \A t \in Threads : Loaded(t) /\ ~Crashed(t) =>
        /\ Len(found_classes[t]) = Cardinality(Range(found_classes[t]))
        /\ Cardinality(Range(found_classes[t])) = 1 =>
              /\ Range(returned[t]) = Range(found_classes[t])
              /\ raised[t] = <<>>

\* the folders of a path, between the separators of the platform
Components(p, platform) ==
    SelectSeq(split(p, IF platform = win32 THEN "\\" ELSE "/"), LAMBDA x : x # "")
\* the folders that name the configuration of a request
ConfigurationFolders(a) ==
    LET p == a.project_id
        c == a.pipeline_config_id
    IN  IF a.generation = CORE_V17
        THEN <<"project_" \o (IF p = None THEN "None" ELSE FormatD(p[1])),
               "config_" \o (IF c = None THEN "None" ELSE FormatD(c[1]))>>
        ELSE CASE p # None /\ c # None -> <<"p" \o FormatD(p[1]) \o "c" \o FormatD(c[1])>>
               [] p # None /\ c = None -> <<"p" \o FormatD(p[1])>>
               [] p = None /\ c # None -> <<"sitec" \o FormatD(c[1])>>
               [] p = None /\ c = None -> <<"site">>
\* the path answered is the site root followed by the folders of the request
Extends(a, site_root, answer) ==
    IF site_root.raised # <<>> \/ site_root.value = None
    THEN answer = site_root
    ELSE /\ answer.raised = <<>>
         /\ answer.value # None
         /\ startswith(answer.value[1], site_root.value[1])
         /\ Components(answer.value[1], sys_platform)
                = Components(site_root.value[1], sys_platform) \o ConfigurationFolders(a)

====
